---- MODULE Spec2Model ----
(***************************************************************************)
(* The live voice pipeline of ChatScreen (src/unnamed/part_006) and the    *)
(* live-session helpers of src/services/geminiService.ts.                  *)
(*                                                                         *)
(* ChatScreen is a React function component.  Its handlers are closures:   *)
(* a handler reads the component state of the render in which it was       *)
(* created.  startMic and stopMic are useCallback closures whose           *)
(* dependency lists name every state they read, so a click runs the        *)
(* closure of the latest render; the callbacks that one startMic call      *)
(* hands to the audio processor and to the session keep the values that    *)
(* call saw (cap[r]), whatever the state becomes afterwards.  Refs         *)
(* (audioSourcesRef, nextStartTimeRef, outputAudioContextRef) are shared   *)
(* mutable cells.                                                          *)
(*                                                                         *)
(* The r-th call of startMic creates microphone stream r, script           *)
(* processor r and live session r, so one index names all three.           *)
(*                                                                         *)
(* The module also covers withRetry (geminiService.ts), the text chat of   *)
(* ChatScreen, handleAnalysis of AnalyzeScreen (JourneyScreen.tsx), the    *)
(* selection of JourneyTracker (part_004) and the cart handlers of App     *)
(* (part_000), each under a specification of its own.                      *)
(***************************************************************************)
EXTENDS Integers, Sequences, FiniteSets, TLC

\* ---------------------------------------------------------------- bounds
MaxRuns  == 2   \* calls of startMic
TurnRuns == 3   \* calls of startMic in the transcript specification
PlayRuns == 1   \* calls of startMic in the playback specification
MaxMsgs  == 3   \* inbound server messages, all sessions together
MaxTicks == 2   \* onaudioprocess ticks, all processors together
MaxClock == 1   \* output device clock, in units of one audio block
MaxBytes == 12  \* length of an inbound audio payload, in bytes
MaxChannels == 4    \* channel count given to decodeAudioData
MaxAnalyses == 2    \* calls of handleAnalysis
MaxRecs == 2        \* recommendations of one analysis
MaxKeys == 2        \* distinct name-brand pairs of recommendations
MaxUrls == 2        \* distinct shopping URLs
MaxOptions == 2     \* options returned by one product search
MaxRecords == 4     \* analysis records shown by the journey tracker
MaxItems == 3       \* distinct products offered to the cart
MaxQuantity == 3    \* greatest quantity of a cart item
MaxHistory == 2     \* length of the chat history at which no new text is submitted

\* The durations of the decoded audio buffers, in units of one audio block.
Durations == {1, 2}

Runs == 1..TurnRuns
None == 0       \* null: no session / stream / processor

\* ------------------------------------------------------- inbound messages
NoAudio  == 0   \* the message has no inlineData
BadAudio == -1  \* inlineData whose payload does not decode

AllMessages ==
    [audio : {NoAudio, BadAudio} \cup Durations,
     inTx : BOOLEAN, outTx : BOOLEAN, turnComplete : BOOLEAN, interrupted : BOOLEAN]

FieldCount(m) ==
    (IF m.audio # NoAudio THEN 1 ELSE 0) + (IF m.inTx THEN 1 ELSE 0)
    + (IF m.outTx THEN 1 ELSE 0) + (IF m.turnComplete THEN 1 ELSE 0)
    + (IF m.interrupted THEN 1 ELSE 0)

\* LiveServerMessage: the server content fields the handlers read; a message
\* carries one or two of them.
Messages == {m \in AllMessages : FieldCount(m) \in {1, 2}}

\* The messages of the session life-cycle specification: one audio delta, one
\* input transcription, one turn complete.
SessionMessages ==
    {m \in Messages : FieldCount(m) = 1 /\ m.audio \in {NoAudio, 1}
                      /\ ~m.outTx /\ ~m.interrupted}

\* The messages of the playback specification: audio deltas and interruptions.
PlaybackMessages == {m \in Messages : ~m.inTx /\ ~m.outTx /\ ~m.turnComplete}

\* The messages of the transcript specification: an input transcription, a
\* turn complete, or both in one message.
TranscriptMessages ==
    {m \in Messages : m.audio = NoAudio /\ ~m.outTx /\ ~m.interrupted}

\* The messages of the scheduling specification: one audio delta, one input
\* transcription or one interruption.
ScheduleMessages ==
    {m \in Messages : FieldCount(m) = 1 /\ m.audio # BadAudio
                      /\ ~m.outTx /\ ~m.turnComplete}

VARIABLES
    mounted,                      \* the ChatScreen component is mounted
    isListening,                  \* useState isListening
    liveSession,                  \* useState liveSession (None or a run)
    micStream,                    \* useState micStream
    audioInputProcessor,          \* useState audioInputProcessor
    currentInputTranscription,    \* useState, a sequence of text pieces
    currentOutputTranscription,   \* useState
    chatHistory,                  \* useState, sequence of [role, text]
    sessionError,                 \* useState: "none", "live", "mic"
    audioSourcesRef,              \* set of source nodes (indices of startLog)
    nextStartTimeRef,             \* the playback clock
    ctxState,                     \* outputAudioContextRef.current.state
    now,                          \* outputAudioContextRef.current.currentTime
    pc,                           \* position of each startMic call
    cap,                          \* what the closures of each startMic call hold
    trackLive,                    \* microphone track of stream r is live
    procConnected,                \* script processor r is connected
    rstat,                        \* remote state of session r
    sent,                         \* sendRealtimeInput calls: [frame, sess]
    ticks,                        \* onaudioprocess ticks so far; tick i captures frame i
    dropped,                      \* frames whose handler held no session handle
    msgCount,                     \* inbound messages so far
    startLog,                     \* every sourceNode.start: [start, dur, at, fresh, sess, msg]
    stopped,                      \* source nodes on which stop() was called
    flushed,                      \* no buffer enqueued since the last flush / stop
    tornDown,                     \* sessions still open after a stop request of the user
    last,                         \* the handler that ran last
    microtasks,                   \* onmessage callbacks suspended at their await, oldest first
    outputContexts,               \* output audio contexts created so far
    isStreaming,                  \* useState isStreaming of ChatScreen
    submit,                       \* position of the handleChatSubmit call in flight
    cart,                         \* useState cart of App: sequence of [shoppingUrl, quantity]
    shoppingProductOptions,       \* useState of AnalyzeScreen: recKey -> options / "loading" / "error"
    currentAnalysisResult,        \* useState of AnalyzeScreen (None or a handleAnalysis call)
    isLoading,                    \* useState of AnalyzeScreen
    error,                        \* useState of AnalyzeScreen: an error message is shown
    analysis,                     \* the handleAnalysis calls: position, recommendations, searches
    selectedRecords,              \* useState of JourneyTracker: sequence of records
    imagesToCompare,              \* useState of App: the records of the comparison modal
    calc                          \* the function under study: its call, then its result

\* The variables of the text chat, of the cart, of the analyze screen and of
\* the journey tracker.
appVars == <<isStreaming, submit, cart, shoppingProductOptions, currentAnalysisResult,
             isLoading, error, analysis, selectedRecords, imagesToCompare>>

\* The variables of the voice pipeline.
voiceVars == <<mounted, isListening, liveSession, micStream, audioInputProcessor,
               currentInputTranscription, currentOutputTranscription, chatHistory,
               sessionError, audioSourcesRef, nextStartTimeRef, ctxState, now, pc,
               cap, trackLive, procConnected, rstat, sent, ticks, dropped, msgCount,
               startLog, stopped, flushed, tornDown, last, microtasks, outputContexts>>

vars == <<mounted, isListening, liveSession, micStream, audioInputProcessor,
          currentInputTranscription, currentOutputTranscription, chatHistory,
          sessionError, audioSourcesRef, nextStartTimeRef, ctxState, now, pc, cap,
          trackLive, procConnected, rstat, sent, ticks, dropped, msgCount, startLog,
          stopped, flushed, tornDown, last, microtasks, outputContexts, isStreaming,
          submit, cart, shoppingProductOptions, currentAnalysisResult, isLoading,
          error, analysis, selectedRecords, imagesToCompare, calc>>

\* The variables of the application: all but calc.
screenVars == <<mounted, isListening, liveSession, micStream, audioInputProcessor,
                currentInputTranscription, currentOutputTranscription, chatHistory,
                sessionError, audioSourcesRef, nextStartTimeRef, ctxState, now, pc,
                cap, trackLive, procConnected, rstat, sent, ticks, dropped, msgCount,
                startLog, stopped, flushed, tornDown, last, microtasks,
                outputContexts, isStreaming, submit, cart, shoppingProductOptions,
                currentAnalysisResult, isLoading, error, analysis, selectedRecords,
                imagesToCompare>>

NoMsg == [audio |-> NoAudio, inTx |-> FALSE, outTx |-> FALSE,
          turnComplete |-> FALSE, interrupted |-> FALSE]

Did(op, r, m) == [op |-> op, r |-> r, m |-> m]

NullCap == [liveSession |-> None, inTx |-> <<>>, outTx |-> <<>>,
            stopMic |-> [micStream |-> None, audioInputProcessor |-> None,
                         liveSession |-> None]]

\* No handleChatSubmit call is in flight.
NoSubmit == [at |-> "idle", reply |-> None]

\* A table without keys: {} in the source.
EmptyTable == <<>>

\* No handleAnalysis call was made.
NoAnalysis == [at |-> "idle", recs |-> <<>>, fetched |-> EmptyTable,
               returned |-> EmptyTable, pending |-> {}]

\* App, AnalyzeScreen and JourneyTracker after their first render.
InitApp ==
    /\ cart = <<>>
    /\ shoppingProductOptions = EmptyTable
    /\ currentAnalysisResult = None
    /\ isLoading = FALSE
    /\ error = FALSE
    /\ analysis = [a \in 1..MaxAnalyses |-> NoAnalysis]
    /\ selectedRecords = <<>>
    /\ imagesToCompare = <<>>

\* No helper function is under study.
NoCalc == [op |-> "none"]

\* The chat screen after its first render and its mount effect.
InitScreen ==
    /\ mounted = TRUE
    /\ isListening = FALSE
    /\ liveSession = None
    /\ micStream = None
    /\ audioInputProcessor = None
    /\ currentInputTranscription = <<>>
    /\ currentOutputTranscription = <<>>
    /\ chatHistory = <<>>
    /\ sessionError = "none"
    /\ audioSourcesRef = {}
    /\ nextStartTimeRef = 0
    /\ ctxState = "suspended"
    /\ now = 0
    /\ pc = [r \in Runs |-> "idle"]
    /\ cap = [r \in Runs |-> NullCap]
    /\ trackLive = [r \in Runs |-> FALSE]
    /\ procConnected = [r \in Runs |-> FALSE]
    /\ rstat = [r \in Runs |-> "none"]
    /\ sent = <<>>
    /\ ticks = 0
    /\ dropped = {}
    /\ msgCount = 0
    /\ startLog = <<>>
    /\ stopped = {}
    /\ flushed = TRUE
    /\ tornDown = {}
    /\ last = Did("init", None, NoMsg)
    /\ microtasks = <<>>
    /\ outputContexts = 1
    /\ isStreaming = FALSE
    /\ submit = NoSubmit

Init ==
    /\ InitScreen
    /\ InitApp
    /\ calc = NoCalc

\* A state setter of an unmounted component does nothing.
SetState(new, old) == IF mounted THEN new ELSE old

Max(a, b) == IF a >= b THEN a ELSE b

\* An event handler that starts while a callback is still suspended.
DispatchAnytime(queue) == TRUE

\* An event handler (a message, a click, an 'ended' event) starts only when
\* no callback is suspended: decodeAudioData is an async function without an
\* await of its own, so the callback that awaits it resumes before the task
\* that dispatched the message ends.
Dispatchable(queue) == queue = <<>>

\* ------------------------------------------------------------ stopMic
\* stopLiveSession: session.close() on an open session starts the closing
\* handshake; on a session that is already closing or closed it does nothing.
stopLiveSession(rs, s) ==
    IF s # None /\ rs[s] = "open" THEN [rs EXCEPT ![s] = "closing"] ELSE rs

StopTracks(tl, m) == IF m # None THEN [tl EXCEPT ![m] = FALSE] ELSE tl

DisconnectProcessor(pcn, p) == IF p # None THEN [pcn EXCEPT ![p] = FALSE] ELSE pcn

\* A stop that moves the playback clock on instead of resetting it.
StopAdvancesClock(old) == old + 1

\* nextStartTimeRef.current = 0 at the end of stopMic
StopClock(old) == 0

\* The state that stopMic reads or writes.
StopState ==
    [trackLive |-> trackLive, procConnected |-> procConnected, rstat |-> rstat,
     stopped |-> stopped, audioSourcesRef |-> audioSourcesRef,
     micStream |-> micStream, audioInputProcessor |-> audioInputProcessor,
     liveSession |-> liveSession, isListening |-> isListening,
     currentInputTranscription |-> currentInputTranscription,
     currentOutputTranscription |-> currentOutputTranscription,
     nextStartTimeRef |-> nextStartTimeRef, flushed |-> flushed]

\* stopMic as the closure c = [micStream, audioInputProcessor, liveSession]
\* runs it on the state st: the state it leaves.
stopMic(c, st) ==
    [trackLive |-> StopTracks(st.trackLive, c.micStream),
     procConnected |-> DisconnectProcessor(st.procConnected, c.audioInputProcessor),
     rstat |-> stopLiveSession(st.rstat, c.liveSession),
     stopped |-> st.stopped \cup st.audioSourcesRef,
     audioSourcesRef |-> {},
     micStream |-> SetState(None, st.micStream),
     audioInputProcessor |-> SetState(None, st.audioInputProcessor),
     liveSession |-> SetState(None, st.liveSession),
     isListening |-> SetState(FALSE, st.isListening),
     currentInputTranscription |-> SetState(<<>>, st.currentInputTranscription),
     currentOutputTranscription |-> SetState(<<>>, st.currentOutputTranscription),
     nextStartTimeRef |-> StopClock(st.nextStartTimeRef),
     flushed |-> TRUE]

\* A call of stopMic by the closure c; rs is the remote state it starts from.
StopMic(c, rs) ==
    \E st \in {stopMic(c, [StopState EXCEPT !.rstat = rs])} :
    /\ trackLive' = st.trackLive
    /\ procConnected' = st.procConnected
    /\ rstat' = st.rstat
    /\ stopped' = st.stopped
    /\ audioSourcesRef' = st.audioSourcesRef
    /\ micStream' = st.micStream
    /\ audioInputProcessor' = st.audioInputProcessor
    /\ liveSession' = st.liveSession
    /\ isListening' = st.isListening
    /\ currentInputTranscription' = st.currentInputTranscription
    /\ currentOutputTranscription' = st.currentOutputTranscription
    /\ nextStartTimeRef' = st.nextStartTimeRef
    /\ flushed' = st.flushed

\* source.stop() raises InvalidStateError on a source node that was never
\* started; the other calls of stopMic are guarded by null checks and raise on
\* no state of their target.
stopMicRaises(c, st) == \E b \in st.audioSourcesRef : b \notin DOMAIN startLog

\* The closure of stopMic of the current render.
CurrentStopMic == [micStream |-> micStream,
                   audioInputProcessor |-> audioInputProcessor,
                   liveSession |-> liveSession]

\* The microphone button: disabled={isStreaming}.
MicButtonEnabled(streaming) == ~streaming

\* The stop button: the microphone button calls stopMic while isListening.
UserStop ==
    /\ Dispatchable(microtasks)
    /\ mounted
    /\ MicButtonEnabled(isStreaming)
    /\ isListening
    /\ StopMic(CurrentStopMic, rstat)
    /\ tornDown' = tornDown \cup {r \in Runs : rstat'[r] = "open"}
    /\ last' = Did("stop", None, NoMsg)
    /\ UNCHANGED <<appVars, microtasks, calc, outputContexts, mounted, chatHistory, sessionError, ctxState, now, pc, cap,
                   sent, ticks, dropped, msgCount, startLog>>

\* The cleanup of the mount effect (dependency list []): it calls the stopMic
\* of the first render, whose micStream, audioInputProcessor and liveSession
\* are all null, then closes the output context.
Unmount ==
    /\ Dispatchable(microtasks)
    /\ mounted
    /\ StopMic(NullCap.stopMic, rstat)
    /\ mounted' = FALSE
    /\ ctxState' = "closed"
    /\ last' = Did("unmount", None, NoMsg)
    /\ UNCHANGED <<appVars, microtasks, calc, outputContexts, tornDown, chatHistory, sessionError, now, pc, cap, sent, ticks, dropped,
                   msgCount, startLog>>

\* ------------------------------------------------------------ startMic
\* if (isListening) return;
StartGuard(listening) == ~listening

\* A click on the microphone button while it shows "Start Voice Chat":
\* startMic runs up to its first await (getUserMedia).
StartMic(r) ==
    /\ Dispatchable(microtasks)
    /\ mounted
    /\ MicButtonEnabled(isStreaming)
    /\ ~isListening
    /\ pc[r] = "idle"
    /\ \A q \in Runs : q < r => pc[q] # "idle"
    /\ StartGuard(isListening)
    /\ sessionError' = "none"
    /\ cap' = [cap EXCEPT ![r] =
                 [liveSession |-> liveSession,
                  inTx |-> currentInputTranscription,
                  outTx |-> currentOutputTranscription,
                  stopMic |-> CurrentStopMic]]
    /\ pc' = [pc EXCEPT ![r] = "getUserMedia"]
    /\ last' = Did("startMic", r, NoMsg)
    /\ UNCHANGED <<appVars, microtasks, calc, outputContexts, tornDown, mounted, isListening, liveSession, micStream, audioInputProcessor,
                   currentInputTranscription, currentOutputTranscription,
                   chatHistory, audioSourcesRef, nextStartTimeRef, ctxState, now,
                   trackLive, procConnected, rstat, sent, ticks, dropped, msgCount,
                   startLog, stopped, flushed>>

\* A startMic that builds an output context of its own for each session.
ContextPerSession(n) == n + 1

\* startMic takes the output context from outputAudioContextRef and resumes
\* it when suspended; the context it creates is the 16 kHz input context.
SessionContexts(n) == n

\* getUserMedia resolves: the stream is stored, the processor is created and
\* connected, the output context is resumed and startLiveSession is called.
MicGranted(r) ==
    /\ Dispatchable(microtasks)
    /\ pc[r] = "getUserMedia"
    /\ trackLive' = [trackLive EXCEPT ![r] = TRUE]
    /\ micStream' = SetState(r, micStream)
    /\ procConnected' = [procConnected EXCEPT ![r] = TRUE]
    /\ audioInputProcessor' = SetState(r, audioInputProcessor)
    /\ ctxState' = IF ctxState = "suspended" THEN "running" ELSE ctxState
    /\ rstat' = [rstat EXCEPT ![r] = "connecting"]
    /\ pc' = [pc EXCEPT ![r] = "connecting"]
    /\ outputContexts' = SessionContexts(outputContexts)
    /\ last' = Did("micGranted", r, NoMsg)
    /\ UNCHANGED <<appVars, microtasks, calc, tornDown, mounted, isListening, liveSession, currentInputTranscription,
                   currentOutputTranscription, chatHistory, sessionError,
                   audioSourcesRef, nextStartTimeRef, now, cap, sent, ticks, dropped,
                   msgCount, startLog, stopped, flushed>>

\* A catch block that swallows the failure without telling the user.
CatchSilent(r, op) ==
    /\ sessionError' = sessionError
    /\ isListening' = SetState(FALSE, isListening)
    /\ pc' = [pc EXCEPT ![r] = "failed"]
    /\ last' = Did(op, r, NoMsg)

\* The catch block of startMic.
CatchStart(r, op) ==
    /\ sessionError' = SetState("mic", sessionError)
    /\ isListening' = SetState(FALSE, isListening)
    /\ pc' = [pc EXCEPT ![r] = "failed"]
    /\ last' = Did(op, r, NoMsg)

\* getUserMedia rejects.
MicDenied(r) ==
    /\ Dispatchable(microtasks)
    /\ pc[r] = "getUserMedia"
    /\ CatchStart(r, "micDenied")
    /\ UNCHANGED <<appVars, microtasks, calc, outputContexts, tornDown, mounted, liveSession, micStream, audioInputProcessor,
                   currentInputTranscription, currentOutputTranscription,
                   chatHistory, audioSourcesRef, nextStartTimeRef, ctxState, now,
                   cap, trackLive, procConnected, rstat, sent, ticks, dropped, msgCount,
                   startLog, stopped, flushed>>

\* startLiveSession rejects.
ConnectFailed(r) ==
    /\ Dispatchable(microtasks)
    /\ pc[r] = "connecting"
    /\ rstat[r] = "connecting"
    /\ CatchStart(r, "connectFailed")
    /\ rstat' = [rstat EXCEPT ![r] = "closed"]
    /\ UNCHANGED <<appVars, microtasks, calc, outputContexts, tornDown, mounted, liveSession, micStream, audioInputProcessor,
                   currentInputTranscription, currentOutputTranscription,
                   chatHistory, audioSourcesRef, nextStartTimeRef, ctxState, now,
                   cap, trackLive, procConnected, sent, ticks, dropped, msgCount,
                   startLog, stopped, flushed>>

\* The connection opens: the onopen callback runs and, in the same task, the
\* promise of startLiveSession resolves and startMic stores the session.
SessionOpened(r) ==
    /\ Dispatchable(microtasks)
    /\ pc[r] = "connecting"
    /\ rstat[r] = "connecting"
    /\ rstat' = [rstat EXCEPT ![r] = "open"]
    /\ isListening' = SetState(TRUE, isListening)
    /\ liveSession' = SetState(r, liveSession)
    /\ pc' = [pc EXCEPT ![r] = "done"]
    /\ last' = Did("opened", r, NoMsg)
    /\ UNCHANGED <<appVars, microtasks, calc, outputContexts, tornDown, mounted, micStream, audioInputProcessor,
                   currentInputTranscription, currentOutputTranscription,
                   chatHistory, sessionError, audioSourcesRef, nextStartTimeRef,
                   ctxState, now, cap, trackLive, procConnected, sent, ticks, dropped,
                   msgCount, startLog, stopped, flushed>>

\* ------------------------------------------------------- onaudioprocess
\* A handler that forwards every frame, with or without a handle.
ForwardsAlways(handle) == TRUE

\* if (liveSession) processAudioChunk(...): liveSession is the value the
\* enclosing startMic call saw.
HandlerForwards(handle) == handle # None

\* processAudioChunk: createBlob, then session.sendRealtimeInput.
processAudioChunk(s, frame) == Append(sent, [frame |-> frame, sess |-> s])

AudioProcess(r) ==
    /\ Dispatchable(microtasks)
    /\ procConnected[r]
    /\ ticks < MaxTicks
    /\ ticks' = ticks + 1
    /\ dropped' = IF cap[r].liveSession = None THEN dropped \cup {ticks + 1} ELSE dropped
    /\ sent' = IF HandlerForwards(cap[r].liveSession)
               THEN processAudioChunk(cap[r].liveSession, ticks + 1)
               ELSE sent
    /\ last' = Did("audioprocess", r, NoMsg)
    /\ UNCHANGED <<appVars, microtasks, calc, outputContexts, tornDown, mounted, isListening, liveSession, micStream, audioInputProcessor,
                   currentInputTranscription, currentOutputTranscription,
                   chatHistory, sessionError, audioSourcesRef, nextStartTimeRef,
                   ctxState, now, pc, cap, trackLive, procConnected, rstat,
                   msgCount, startLog, stopped, flushed>>

\* ------------------------------------------ startLiveSession.onmessage
USER == "user"
MODEL == "model"

\* onTranscription: setCurrent...Transcription(prev => prev + text)
AppendText(prev, has, text) == IF has THEN Append(prev, text) ELSE prev

\* onTurnComplete, first part: the messages it pushes to the chat history.
\* inTx and outTx are currentInputTranscription and currentOutputTranscription
\* as the enclosing startMic call saw them.
TurnMessages(inTx, outTx) ==
    (IF inTx # <<>> THEN <<[role |-> USER, text |-> inTx]>> ELSE <<>>)
    \o (IF outTx # <<>> THEN <<[role |-> MODEL, text |-> outTx]>> ELSE <<>>)

\* nextStartTimeRef.current = Math.max(nextStartTimeRef.current, audioCtx.currentTime)
ClampStart(next, clock) == Max(next, clock)

\* A scheduler that forgets to advance the playback clock.
NoAdvance(start, dur) == start

\* nextStartTimeRef.current += audioBuffer.duration
AdvanceStart(start, dur) == start + dur

\* An interruption that leaves the playback clock as it was.
KeepClock(old) == old

\* nextStartTimeRef.current = 0 in the interrupted branch
InterruptClock(old) == 0

\* A decoder that accepts every payload.
DecodeNeverFails(audio) == FALSE

\* decode / decodeAudioData throw on this payload
DecodeFails(audio) == audio = BadAudio

\* One inbound message of session r, handled by the onmessage wrapper of
\* startLiveSession (transcriptions, turn complete) and then by the onmessage
\* callback of startMic (audio, interruption).  The callback awaits only
\* decodeAudioData, which settles without leaving the task, so no other
\* handler runs before the message is done and the whole message is one step.
\* MessageArrives and AudioDecoded below split the step at the await, for the
\* device clock moves on during it.
OnMessage(r, m) ==
    LET text     == msgCount + 1
        hasAudio == m.audio # NoAudio
        throws   == hasAudio /\ DecodeFails(m.audio)
        enqueue  == hasAudio /\ ~throws
        startAt  == ClampStart(nextStartTimeRef, now)
        node     == Len(startLog) + 1
        clock1   == IF enqueue THEN AdvanceStart(startAt, m.audio)
                    ELSE IF hasAudio THEN startAt ELSE nextStartTimeRef
        sources1 == IF enqueue THEN audioSourcesRef \cup {node} ELSE audioSourcesRef
        flush    == m.interrupted /\ ~throws
        outTx1   == AppendText(currentOutputTranscription, m.outTx, text)
        inTx1    == AppendText(currentInputTranscription, m.inTx, text)
    IN
    /\ Dispatchable(microtasks)
    /\ rstat[r] = "open"
    /\ msgCount < MaxMsgs
    /\ msgCount' = msgCount + 1
    /\ currentOutputTranscription' =
          SetState(IF m.turnComplete THEN <<>> ELSE outTx1, currentOutputTranscription)
    /\ currentInputTranscription' =
          SetState(IF m.turnComplete THEN <<>> ELSE inTx1, currentInputTranscription)
    /\ chatHistory' =
          SetState(IF m.turnComplete
                   THEN chatHistory \o TurnMessages(cap[r].inTx, cap[r].outTx)
                   ELSE chatHistory, chatHistory)
    /\ startLog' = IF enqueue
                   THEN Append(startLog, [start |-> startAt, dur |-> m.audio,
                                          at |-> now, fresh |-> flushed, sess |-> r,
                                          msg |-> msgCount + 1])
                   ELSE startLog
    /\ stopped' = IF flush THEN stopped \cup sources1 ELSE stopped
    /\ audioSourcesRef' = IF flush THEN {} ELSE sources1
    /\ nextStartTimeRef' = IF flush THEN InterruptClock(clock1) ELSE clock1
    /\ flushed' = IF flush THEN TRUE ELSE (flushed /\ ~enqueue)
    /\ last' = Did("message", r, m)
    /\ UNCHANGED <<appVars, microtasks, calc, outputContexts, tornDown, mounted, isListening, liveSession, micStream, audioInputProcessor,
                   sessionError, ctxState, now, pc, cap, trackLive, procConnected,
                   rstat, sent, ticks, dropped>>

\* ------------------------------------- the onmessage callback at its await
\* The payload of the message decodes: its callback reaches
\* "await decodeAudioData(...)" and is suspended there.
Suspends(m) == m.audio # NoAudio /\ ~DecodeFails(m.audio)

\* A message whose callback suspends is handled up to the await: the wrapper
\* of startLiveSession dispatches the transcriptions and the turn complete,
\* the callback clamps the playback clock to the device clock, calls decode
\* and decodeAudioData and waits for the result.
MessageArrives(r, m) ==
    LET text   == msgCount + 1
        outTx1 == AppendText(currentOutputTranscription, m.outTx, text)
        inTx1  == AppendText(currentInputTranscription, m.inTx, text)
    IN
    /\ Dispatchable(microtasks)
    /\ rstat[r] = "open"
    /\ msgCount < MaxMsgs
    /\ Suspends(m)
    /\ msgCount' = msgCount + 1
    /\ currentOutputTranscription' =
          SetState(IF m.turnComplete THEN <<>> ELSE outTx1, currentOutputTranscription)
    /\ currentInputTranscription' =
          SetState(IF m.turnComplete THEN <<>> ELSE inTx1, currentInputTranscription)
    /\ chatHistory' =
          SetState(IF m.turnComplete
                   THEN chatHistory \o TurnMessages(cap[r].inTx, cap[r].outTx)
                   ELSE chatHistory, chatHistory)
    /\ nextStartTimeRef' = ClampStart(nextStartTimeRef, now)
    /\ microtasks' = Append(microtasks, [r |-> r, m |-> m, msg |-> msgCount + 1])
    /\ last' = Did("arrived", r, m)
    /\ UNCHANGED <<appVars, calc, outputContexts, tornDown, mounted, isListening, liveSession, micStream,
                   audioInputProcessor, sessionError, audioSourcesRef, ctxState, now,
                   pc, cap, trackLive, procConnected, rstat, sent, ticks, dropped,
                   startLog, stopped, flushed>>

\* A message whose callback never reaches the await (no audio, or a payload
\* that does not decode) is handled in one step.
SyncMessage(r, m) ==
    /\ ~Suspends(m)
    /\ OnMessage(r, m)

\* The oldest suspended callback resumes after its await: the source node is
\* created, started at the playback clock and added to the active set, the
\* playback clock advances, and the interrupted flag of the message is handled.
AudioDecoded ==
    /\ microtasks # <<>>
    /\ LET t        == Head(microtasks)
           node     == Len(startLog) + 1
           clock1   == AdvanceStart(nextStartTimeRef, t.m.audio)
           sources1 == audioSourcesRef \cup {node}
       IN
       /\ microtasks' = Tail(microtasks)
       /\ startLog' = Append(startLog, [start |-> nextStartTimeRef, dur |-> t.m.audio,
                                        at |-> now, fresh |-> flushed, sess |-> t.r,
                                        msg |-> t.msg])
       /\ stopped' = IF t.m.interrupted THEN stopped \cup sources1 ELSE stopped
       /\ audioSourcesRef' = IF t.m.interrupted THEN {} ELSE sources1
       /\ nextStartTimeRef' = IF t.m.interrupted THEN InterruptClock(clock1) ELSE clock1
       /\ flushed' = t.m.interrupted
       /\ last' = Did("decoded", t.r, t.m)
    /\ UNCHANGED <<appVars, calc, outputContexts, tornDown, mounted, isListening, liveSession, micStream,
                   audioInputProcessor, currentInputTranscription,
                   currentOutputTranscription, chatHistory, sessionError, ctxState,
                   now, pc, cap, trackLive, procConnected, rstat, sent, ticks, dropped,
                   msgCount>>

\* The 'ended' listener of a source node whose buffer has played to its end.
SourceEnded(b) ==
    /\ Dispatchable(microtasks)
    /\ b \in audioSourcesRef
    /\ now >= startLog[b].start + startLog[b].dur
    /\ audioSourcesRef' = audioSourcesRef \ {b}
    /\ last' = Did("ended", None, NoMsg)
    /\ UNCHANGED <<appVars, microtasks, calc, outputContexts, tornDown, mounted, isListening, liveSession, micStream, audioInputProcessor,
                   currentInputTranscription, currentOutputTranscription,
                   chatHistory, sessionError, nextStartTimeRef, ctxState, now, pc,
                   cap, trackLive, procConnected, rstat, sent, ticks, dropped, msgCount,
                   startLog, stopped, flushed>>

\* The output device clock advances while the output context is running.
ClockTick ==
    /\ ctxState = "running"
    /\ now < MaxClock
    /\ now' = now + 1
    /\ last' = Did("clock", None, NoMsg)
    /\ UNCHANGED <<appVars, microtasks, calc, outputContexts, tornDown, mounted, isListening, liveSession, micStream, audioInputProcessor,
                   currentInputTranscription, currentOutputTranscription,
                   chatHistory, sessionError, audioSourcesRef, nextStartTimeRef,
                   ctxState, pc, cap, trackLive, procConnected, rstat, sent, ticks, dropped,
                   msgCount, startLog, stopped, flushed>>

\* -------------------------------------------------- onerror / onclose
\* The session reports an error: onerror shows the message and calls the
\* stopMic that the enclosing startMic call saw.  The transport is then on its
\* way down and delivers no further message; its close event follows.
OnError(r) ==
    /\ Dispatchable(microtasks)
    /\ rstat[r] = "open"
    /\ sessionError' = SetState("live", sessionError)
    /\ StopMic(cap[r].stopMic, [rstat EXCEPT ![r] = "errored"])
    /\ tornDown' = {q \in tornDown : rstat'[q] = "open"}
    /\ last' = Did("error", r, NoMsg)
    /\ UNCHANGED <<appVars, microtasks, calc, outputContexts, mounted, chatHistory, ctxState, now, pc, cap, sent, ticks, dropped,
                   msgCount, startLog>>

\* The close event of session r (closed by the server, after an error, or at
\* the end of the handshake that session.close() started): onclose calls the
\* stopMic that the enclosing startMic call saw.
OnClose(r) ==
    /\ Dispatchable(microtasks)
    /\ rstat[r] \in {"open", "errored", "closing"}
    /\ StopMic(cap[r].stopMic, [rstat EXCEPT ![r] = "closed"])
    /\ tornDown' = {q \in tornDown : rstat'[q] = "open"}
    /\ last' = Did("close", r, NoMsg)
    /\ UNCHANGED <<appVars, microtasks, calc, outputContexts, mounted, chatHistory, sessionError, ctxState, now, pc, cap,
                   sent, ticks, dropped, msgCount, startLog>>

\* The steps of the startMic calls r and of their sessions.
Lifecycle(r) ==
    \/ StartMic(r)
    \/ MicGranted(r)
    \/ MicDenied(r)
    \/ ConnectFailed(r)
    \/ SessionOpened(r)
    \/ OnError(r)
    \/ OnClose(r)

\* A startMic call is in flight or its session is open.
InFlight(q) == pc[q] \in {"getUserMedia", "connecting"} \/ rstat[q] = "open"

\* The session life cycle with the capture pipeline: the startMic calls, the
\* processor ticks, the stop button and the unmount.
Next ==
    \/ \E r \in 1..MaxRuns : Lifecycle(r)
    \/ \E r \in Runs : AudioProcess(r)
    \/ UserStop
    \/ Unmount

Spec == Init /\ [][Next]_vars

\* The session life cycle with inbound messages.
NextTeardown ==
    \/ \E r \in 1..MaxRuns : Lifecycle(r)
    \/ \E r \in Runs, m \in SessionMessages : OnMessage(r, m)
    \/ UserStop
    \/ Unmount

SpecTeardown == Init /\ [][NextTeardown]_vars

\* A click on the microphone button by a user who starts a voice session
\* only when no earlier one is in flight.
SoloStartMic(r) ==
    /\ \A q \in Runs : ~InFlight(q)
    /\ StartMic(r)

SoloLifecycle(r) ==
    \/ SoloStartMic(r)
    \/ MicGranted(r)
    \/ MicDenied(r)
    \/ ConnectFailed(r)
    \/ SessionOpened(r)
    \/ OnError(r)
    \/ OnClose(r)

\* Playback in a mounted chat screen: audio deltas and interruptions against
\* the device clock.
NextPlayback ==
    \/ \E r \in 1..PlayRuns : SoloLifecycle(r)
    \/ \E r \in Runs, m \in PlaybackMessages : OnMessage(r, m)
    \/ \E b \in 1..MaxMsgs : SourceEnded(b)
    \/ ClockTick
    \/ UserStop

SpecPlayback == Init /\ [][NextPlayback]_vars

\* Transcripts and turns over three calls of startMic.
NextTurns ==
    \/ \E r \in Runs : Lifecycle(r)
    \/ \E r \in Runs, m \in TranscriptMessages : OnMessage(r, m)
    \/ UserStop

SpecTurns == Init /\ [][NextTurns]_vars

\* Playback with the onmessage callback split at its await.  The device clock
\* belongs to the audio rendering thread: it advances whether or not a
\* callback is suspended.
NextSchedule ==
    \/ \E r \in 1..PlayRuns : SoloLifecycle(r)
    \/ \E r \in Runs, m \in ScheduleMessages : MessageArrives(r, m)
    \/ \E r \in Runs, m \in ScheduleMessages : SyncMessage(r, m)
    \/ \E b \in 1..MaxMsgs : SourceEnded(b)
    \/ UserStop
    \/ AudioDecoded
    \/ ClockTick

SpecSchedule == Init /\ [][NextSchedule]_vars

\* ------------------------------------------------- Live API utilities
\* new Int16Array(data.buffer) raises RangeError unless the byte length of the
\* buffer is a multiple of 2.
Int16Raises(n) == n % 2 # 0

\* frameCount = dataInt16.length / numChannels, as createBuffer receives it:
\* its length argument is an unsigned long, so the fraction is dropped.
FrameCount(n, c) == (n \div 2) \div c

\* ctx.createBuffer raises NotSupportedError for a length of 0.
CreateBufferRaises(frames) == frames = 0

\* decode, then decodeAudioData, on a payload of n bytes for c channels:
\* whether it raises, and the number of sample frames of the buffer.
decodeAudioData(n, c) ==
    IF Int16Raises(n) \/ CreateBufferRaises(FrameCount(n, c))
    THEN [failed |-> TRUE, frames |-> 0]
    ELSE [failed |-> FALSE, frames |-> FrameCount(n, c)]

\* The payloads and channel counts under study.
InitDecode ==
    /\ InitScreen
    /\ InitApp
    /\ calc \in [op : {"decode"}, n : 0..MaxBytes, c : 1..MaxChannels]

DecodePayload ==
    /\ calc.op = "decode"
    /\ calc' = [op |-> "decoded", n |-> calc.n, c |-> calc.c,
                out |-> decodeAudioData(calc.n, calc.c)]
    /\ UNCHANGED screenVars

SpecDecode == InitDecode /\ [][DecodePayload]_vars

\* The scale between a floating-point sample and a 16-bit PCM sample.  A
\* sample value is held as its numerator over PcmScale.
PcmScale == 32768

\* A store into an Int16Array element: the value modulo 2^16, as a signed
\* 16-bit integer.
ToInt16(v) == ((v + PcmScale) % (2 * PcmScale)) - PcmScale

\* createBlob: int16[i] = data[i] * 32768
EncodeSample(num) == ToInt16((num * PcmScale) \div PcmScale)

\* decodeAudioData: channelData[i] = dataInt16[...] / 32768.0
DecodeSample(v) == [num |-> v, den |-> PcmScale]

\* The samples under study: every multiple of 1/32768 in [-1.0, 1.0].
InitPcm ==
    /\ InitScreen
    /\ InitApp
    /\ calc \in [op : {"sample"}, s : (-PcmScale)..PcmScale]

\* One sample through createBlob and back through decodeAudioData.
PcmRoundTrip ==
    /\ calc.op = "sample"
    /\ calc' = [op |-> "roundtrip", s |-> calc.s, pcm |-> EncodeSample(calc.s),
                back |-> DecodeSample(EncodeSample(calc.s))]
    /\ UNCHANGED screenVars

SpecPcm == InitPcm /\ [][PcmRoundTrip]_vars

\* ------------------------------------- startLiveSession: system prompt
\* The fields of MedicalQuestionnaireData that startLiveSession reads, in the
\* order of its if statements.
MedicalFields ==
    <<"medicalHistory", "currentMedications", "concomitantMedications",
      "signsSymptoms", "labWork", "recentVaccinations">>

FieldNames == {MedicalFields[i] : i \in DOMAIN MedicalFields}

\* A part of the system prompt and, for the medical part, the fields it lists.
Section(name, fields) == [section |-> name, fields |-> fields]

\* A prompt that carries the profile part whether or not a profile is given.
ProfileAlways(hasProfile) == <<Section("profile", <<>>)>>

\* if (userProfile) systemInstruction += User Profile ...
ProfilePart(hasProfile) ==
    IF hasProfile THEN <<Section("profile", <<>>)>> ELSE <<>>

\* medicalContext: one entry for each field that holds a non-empty string;
\* filled is the set of those fields.
medicalContext(filled) == SelectSeq(MedicalFields, LAMBDA f : f \in filled)

\* if (medicalData) { ... if (medicalContext.length > 0) systemInstruction += ... }
MedicalPart(hasMedical, filled) ==
    IF hasMedical /\ medicalContext(filled) # <<>>
    THEN <<Section("medical", medicalContext(filled))>>
    ELSE <<>>

\* The system prompt of startLiveSession, as the sequence of its parts.
systemInstruction(hasProfile, hasMedical, filled) ==
    <<Section("persona", <<>>)>> \o ProfilePart(hasProfile)
    \o MedicalPart(hasMedical, filled)

\* The arguments under study: a profile or null, medical data with any set of
\* non-empty fields or null.
InitPrompt ==
    /\ InitScreen
    /\ InitApp
    /\ calc \in {c \in [op : {"arguments"}, profile : BOOLEAN, medical : BOOLEAN,
                         filled : SUBSET FieldNames] :
                    ~c.medical => c.filled = {}}

BuildPrompt ==
    /\ calc.op = "arguments"
    /\ calc' = [op |-> "prompt", profile |-> calc.profile, medical |-> calc.medical,
                filled |-> calc.filled,
                out |-> systemInstruction(calc.profile, calc.medical, calc.filled)]
    /\ UNCHANGED screenVars

SpecPrompt == InitPrompt /\ [][BuildPrompt]_vars

\* ================================================================ claims
LiveTracks == {r \in Runs : trackLive[r]}
LiveSessions == {r \in Runs : rstat[r] \in {"connecting", "open"}}

\* C1: at most one remote live session and at most one live microphone
\* stream exist at any time, whatever start and stop requests are issued.
OneSessionOneStream ==
    /\ Cardinality(LiveTracks) <= 1
    /\ Cardinality(LiveSessions) <= 1

\* C2: once startLiveSession has resolved for a startMic call, and until its
\* session is stopped, every onaudioprocess tick of that call sends its frame
\* to that session, in capture order.
ResolvedTickSends ==
    (/\ last.op = "audioprocess"
     /\ pc[last.r] = "done"
     /\ rstat[last.r] = "open")
    => /\ sent # <<>>
       /\ sent[Len(sent)] = [frame |-> ticks, sess |-> last.r]

TurnCompleteCommits ==
    [][(/\ mounted
        /\ last'.op = "message"
        /\ last'.m.turnComplete
        /\ ~last'.m.inTx /\ ~last'.m.outTx
        /\ (currentInputTranscription # <<>> \/ currentOutputTranscription # <<>>))
       => /\ chatHistory' = chatHistory
                \o (IF currentInputTranscription # <<>>
                    THEN <<[role |-> USER, text |-> currentInputTranscription]>>
                    ELSE <<>>)
                \o (IF currentOutputTranscription # <<>>
                    THEN <<[role |-> MODEL, text |-> currentOutputTranscription]>>
                    ELSE <<>>)
          /\ currentInputTranscription' = <<>>
          /\ currentOutputTranscription' = <<>>]_vars

\* Every source node that was started has been stopped or has played to its end.
AllAudioStopped ==
    \A b \in DOMAIN startLog :
        b \in stopped \/ now >= startLog[b].start + startLog[b].dur

\* The shared playback state and the per-session React state are as before
\* the first start.
PlaybackAndStateReset ==
    /\ audioSourcesRef = {}
    /\ AllAudioStopped
    /\ nextStartTimeRef = 0
    /\ mounted => /\ currentInputTranscription = <<>>
                  /\ currentOutputTranscription = <<>>
                  /\ ~isListening

\* C5: when session r reports an error or closes, its microphone tracks are
\* stopped, its processor tap is disconnected, the remote session is closed,
\* the playback state and the accumulators are reset and the listening
\* indicator is off; on error the session error is shown.
SessionEndTearsDown ==
    last.op \in {"error", "close"}
    => /\ ~trackLive[last.r]
       /\ ~procConnected[last.r]
       /\ rstat[last.r] \notin {"connecting", "open"}
       /\ PlaybackAndStateReset
       /\ (mounted /\ last.op = "error") => sessionError = "live"

\* C6: a stop request (stop button or unmount) leaves no live microphone
\* track, no connected processor tap, no remote session, and the playback
\* state and the per-session state reset.
StopLeavesCleanState ==
    last.op \in {"stop", "unmount"}
    => /\ \A r \in Runs : /\ ~trackLive[r]
                          /\ ~procConnected[r]
                          /\ rstat[r] \notin {"connecting", "open"}
       /\ PlaybackAndStateReset

\* C7: a message of a session that has been torn down changes neither the
\* active playback set, nor the playback clock, nor a transcript accumulator,
\* nor the conversation log.  (A session ended by a remote error or a remote
\* close delivers no further message; tornDown holds the sessions that still
\* deliver after a stop request.)
StaleMessageIgnored ==
    [][(/\ mounted
        /\ last'.op = "message"
        /\ last'.r \in tornDown)
       => UNCHANGED <<audioSourcesRef, nextStartTimeRef, currentInputTranscription,
                      currentOutputTranscription, chatHistory>>]_vars

\* C8: after a message with the interrupted flag has been handled, every
\* scheduled or playing buffer has been stopped, the active playback set is
\* empty and the playback clock is 0.
InterruptFlushesAll ==
    (last.op = "message" /\ last.m.interrupted)
    => /\ audioSourcesRef = {}
       /\ AllAudioStopped
       /\ nextStartTimeRef = 0

QuickTriple(b) ==
    /\ b + 2 \in DOMAIN startLog
    /\ ~startLog[b + 1].fresh
    /\ ~startLog[b + 2].fresh
    /\ startLog[b + 1].at < startLog[b].start + startLog[b].dur
    /\ startLog[b + 2].at < startLog[b].start + startLog[b].dur

\* C10: three audio deltas that all arrive before the first has finished
\* playing start at t, t+d1 and t+d1+d2.
GaplessTriple ==
    \A b \in DOMAIN startLog :
        QuickTriple(b)
        => /\ startLog[b + 1].start = startLog[b].start + startLog[b].dur
           /\ startLog[b + 2].start =
                 startLog[b].start + startLog[b].dur + startLog[b + 1].dur

\* C10 witness: such a triple whose later buffers arrived after the first
\* had started playing.
GaplessTripleWitness ==
    \E b \in DOMAIN startLog :
        /\ QuickTriple(b)
        /\ startLog[b + 1].at > startLog[b].start
        /\ startLog[b].dur # startLog[b + 1].dur

\* C11: every audio buffer is started once, not before the device clock of
\* the moment sourceNode.start is called and not before the end of the buffer
\* scheduled before it.
StartedOnceNotInPast ==
    \A b \in DOMAIN startLog :
        /\ startLog[b].start >= startLog[b].at
        /\ (b > 1 /\ ~startLog[b].fresh)
              => startLog[b].start >= startLog[b - 1].start + startLog[b - 1].dur
        /\ \A c \in DOMAIN startLog : startLog[c].msg = startLog[b].msg => c = b

\* C12: when startLiveSession rejects after the microphone has been acquired,
\* the failure is shown and the teardown of a normal stop is performed: the
\* microphone track of the call is stopped, its processor tap is disconnected,
\* no session of the call is retained and the listening indicator is off.
ConnectFailureTearsDown ==
    last.op = "connectFailed"
    => /\ ~trackLive[last.r]
       /\ ~procConnected[last.r]
       /\ rstat[last.r] \notin {"connecting", "open"}
       /\ mounted => /\ sessionError # "none"
                     /\ liveSession # last.r
                     /\ ~isListening

\* An audio delta of one block.
OneBlock == [NoMsg EXCEPT !.audio = 1]

\* C13: an inbound message whose audio payload fails to decode leaves the
\* session open and the listening indicator, the active playback set and the
\* started buffers as they were; the session still accepts the next message,
\* and an audio delta that follows the failure is started.
DecodeFailureDropped ==
    [][/\ (last'.op = "message" /\ last'.m.audio = BadAudio)
          => /\ UNCHANGED <<rstat, isListening, liveSession, audioSourcesRef,
                            startLog, stopped>>
             /\ rstat'[last'.r] = "open"
       /\ (last.op = "message" /\ last.m.audio = BadAudio /\ msgCount < MaxMsgs)
          => ENABLED OnMessage(last.r, OneBlock)
       /\ (/\ last.op = "message" /\ last.m.audio = BadAudio
           /\ last'.op = "message" /\ last'.r = last.r /\ last'.m.audio \in Durations)
          => /\ Len(startLog') = Len(startLog) + 1
             /\ startLog'[Len(startLog')].msg = msgCount']_vars

\* C13 witness: a payload failed to decode while a buffer was in the active
\* set, and the audio delta after it was started behind that buffer.
DecodeFailureWitness ==
    \E b \in DOMAIN startLog :
        /\ b + 1 \in DOMAIN startLog
        /\ startLog[b + 1].msg = startLog[b].msg + 2
        /\ startLog[b + 1].sess = startLog[b].sess
        /\ ~startLog[b + 1].fresh
        /\ b \in audioSourcesRef

\* The stopMic closures that exist: the one of the current render, the one of
\* the first render and the ones the startMic calls hold.
StopClosures == {CurrentStopMic, NullCap.stopMic} \cup {cap[r].stopMic : r \in Runs}

\* Nothing is running: no live track, no connected processor, no session, and
\* the component state and the playback state are reset.
Idle ==
    /\ \A r \in Runs : /\ ~trackLive[r]
                        /\ ~procConnected[r]
                        /\ rstat[r] \in {"none", "closed"}
    /\ micStream = None /\ audioInputProcessor = None /\ liveSession = None
    /\ ~isListening
    /\ currentInputTranscription = <<>> /\ currentOutputTranscription = <<>>
    /\ audioSourcesRef = {} /\ nextStartTimeRef = 0

\* C14: stopMic called when idle changes no state, stopMic applied twice
\* leaves the state that one application leaves, and stopMic raises no error
\* in any reachable state, whichever closure runs it.
StopMicIdempotent ==
    \A c \in StopClosures :
        /\ Idle => stopMic(c, StopState) = StopState
        /\ stopMic(c, stopMic(c, StopState)) = stopMic(c, StopState)
        /\ ~stopMicRaises(c, StopState)
        /\ ~stopMicRaises(c, stopMic(c, StopState))

\* C14 witness: a session that had started a buffer was stopped, its close
\* event has called stopMic once more, and nothing is running.
StopMicIdempotentWitness ==
    /\ last.op = "close"
    /\ Idle
    /\ stopped # {}
    /\ \E r \in Runs : trackLive[r] = FALSE /\ pc[r] = "done"

\* C15: a turn-complete event handled while both transcript accumulators are
\* empty appends nothing to the conversation log.
EmptyTurnAddsNothing ==
    [][(/\ mounted
        /\ last'.op = "message"
        /\ last'.m.turnComplete
        /\ ~last'.m.inTx /\ ~last'.m.outTx
        /\ currentInputTranscription = <<>>
        /\ currentOutputTranscription = <<>>)
       => chatHistory' = chatHistory]_vars

\* Both transcript accumulators are empty.
AccumulatorsEmpty ==
    currentInputTranscription = <<>> /\ currentOutputTranscription = <<>>

\* C16: both accumulators are empty after every turn-complete event and
\* after every stop, and a turn-complete event commits only text of the
\* accumulators of its own turn.
TurnsDoNotMix ==
    [][/\ (mounted /\ last'.op = "message" /\ last'.m.turnComplete)
          => AccumulatorsEmpty'
       /\ (mounted /\ last'.op \in {"stop", "error", "close"})
          => AccumulatorsEmpty'
       /\ last'.op = "message"
          => \A i \in (Len(chatHistory) + 1)..Len(chatHistory') :
                chatHistory'[i].text \in {currentInputTranscription,
                                          currentOutputTranscription}]_vars

\* C17: decoding a payload of n bytes for c channels fails exactly when n is
\* not a multiple of 2*c; for one channel 3 bytes fail and 4 bytes give 2
\* samples.
DecodeFailsIffMisaligned ==
    calc.op = "decoded"
    => /\ calc.out.failed <=> (calc.n % (2 * calc.c) # 0)
       /\ (calc.c = 1 /\ calc.n = 3) => calc.out.failed
       /\ (calc.c = 1 /\ calc.n = 4) => (~calc.out.failed /\ calc.out.frames = 2)

\* C18: a sample in [-1.0, 1.0] encoded to 16-bit PCM and decoded back
\* differs from the original by at most 1/32768, and the 16-bit store holds
\* the scaled sample itself (it does not wrap).
PcmRoundTripWithinQuantum ==
    calc.op = "roundtrip"
    => /\ calc.pcm = calc.s
       /\ calc.back.den = PcmScale
       /\ calc.back.num - calc.s \in {-1, 0, 1}

\* The order of the prompt parts and of the medical fields that C19 states.
PartRank(name) == IF name = "persona" THEN 1 ELSE IF name = "profile" THEN 2 ELSE 3

StatedFieldOrder ==
    <<"medicalHistory", "currentMedications", "concomitantMedications",
      "signsSymptoms", "labWork", "recentVaccinations">>

FieldRank(f) == CHOOSE i \in DOMAIN StatedFieldOrder : StatedFieldOrder[i] = f

\* C19: the system prompt is the base persona, then the profile part exactly
\* when a profile is given, then the medical part exactly when medical data
\* with a non-empty field is given; the medical part lists the non-empty
\* fields, and only those, in the stated order.
PromptPartsInOrder ==
    calc.op = "prompt"
    => LET p == calc.out IN
       /\ p[1].section = "persona"
       /\ (\E i \in DOMAIN p : p[i].section = "profile") <=> calc.profile
       /\ (\E i \in DOMAIN p : p[i].section = "medical")
             <=> (calc.medical /\ calc.filled # {})
       /\ \A i, j \in DOMAIN p :
             i < j => PartRank(p[i].section) < PartRank(p[j].section)
       /\ \A i \in DOMAIN p :
             p[i].section = "medical"
             => /\ {p[i].fields[k] : k \in DOMAIN p[i].fields} = calc.filled
                /\ \A k, l \in DOMAIN p[i].fields :
                      k < l => FieldRank(p[i].fields[k]) < FieldRank(p[i].fields[l])

\* C19 witness: a prompt with all three parts whose medical part leaves out
\* empty fields, the first one among them.
PromptPartsWitness ==
    /\ calc.op = "prompt"
    /\ Len(calc.out) = 3
    /\ "medicalHistory" \notin calc.filled
    /\ Cardinality(calc.filled) > 2
    /\ Cardinality(calc.filled) < Len(MedicalFields) - 1

\* The pieces of a transcript are in arrival order.
Ascending(seq) == \A i, j \in DOMAIN seq : i < j => seq[i] < seq[j]

\* The started buffers are in the arrival order of their audio deltas, one
\* buffer for a message, and a buffer that follows another without a flush in
\* between starts no earlier than the other ends.
BuffersInArrivalOrder ==
    \A b, c \in DOMAIN startLog :
        b < c => /\ startLog[b].msg < startLog[c].msg
                 /\ (c = b + 1 /\ ~startLog[c].fresh)
                       => startLog[c].start >= startLog[b].start + startLog[b].dur

\* C20: every inbound message is handled once and in delivery order: a
\* callback that resumes after its await belongs to the message delivered
\* last, so no other message was handled in between; the transcript pieces
\* and the started buffers are in arrival order.
MessagesHandledInOrder ==
    [][/\ last'.op = "decoded" => /\ Head(microtasks).msg = msgCount
                                  /\ Len(microtasks) = 1
                                  /\ last.op = "arrived" \/ last.op = "clock"
       /\ last'.op \in {"message", "arrived"} => msgCount' = msgCount + 1
       /\ Ascending(currentInputTranscription')
       /\ Ascending(currentOutputTranscription')
       /\ BuffersInArrivalOrder']_vars

\* C20 witness: two audio deltas with an input transcription between them
\* have been handled: two buffers are started, the second behind the first.
MessagesInOrderWitness ==
    /\ last.op = "decoded"
    /\ Len(startLog) = 2
    /\ startLog[2].msg = startLog[1].msg + 2
    /\ currentInputTranscription = <<startLog[1].msg + 1>>
    /\ startLog[2].start = startLog[1].start + startLog[1].dur

\* ------------------------------------------------------------ withRetry
MAX_RETRIES == 5
INITIAL_DELAY_MS == 250

\* The errors an attempt of the wrapped call rejects with: at most one of
\* status, httpStatus and message marks a rate limit.
ErrorKinds ==
    {[status |-> "RESOURCE_EXHAUSTED", httpStatus |-> 0, message |-> ""],
     [status |-> "", httpStatus |-> 429, message |-> ""],
     [status |-> "", httpStatus |-> 0, message |-> "got status: 429"],
     [status |-> "", httpStatus |-> 0, message |-> "Rate Limit exceeded"],
     [status |-> "INTERNAL", httpStatus |-> 500, message |-> "internal error"],
     [status |-> "", httpStatus |-> 0, message |-> ""]}

\* error.message.includes('429')
Includes429(message) == message \in {"got status: 429"}

\* /rate limit/i.test(error.message)
MatchesRateLimit(message) == message \in {"Rate Limit exceeded"}

isRateLimitError(e) ==
    \/ e.status = "RESOURCE_EXHAUSTED"
    \/ e.httpStatus = 429
    \/ (e.message # "" /\ (Includes429(e.message) \/ MatchesRateLimit(e.message)))

\* A catch block that rethrows nothing at once.
NeverRethrows(e) == FALSE

\* The catch block rethrows e at once: the else branch of if (isRateLimitError(e)).
RethrowsAtOnce(e) == ~isRateLimitError(e)

\* Math.random() * 100, in whole milliseconds: the least and the greatest.
Jitters == {0, 99}

\* A backoff that waits the initial delay before every retry.
FlatDelay(attempt, jitter) == INITIAL_DELAY_MS + jitter

\* INITIAL_DELAY_MS * Math.pow(2, attempt) + Math.random() * 100
BackoffDelay(attempt, jitter) == INITIAL_DELAY_MS * (2 ^ attempt) + jitter

\* The error the attempt-th call rejects with (attempt counts from 0).
ErrorOf(attempt, kind) ==
    [id |-> attempt, status |-> kind.status, httpStatus |-> kind.httpStatus,
     message |-> kind.message]

\* withRetry is called: attempt = 0, no call of apiCall has settled.
InitRetry ==
    /\ InitScreen
    /\ InitApp
    /\ calc = [op |-> "retry", at |-> "call", attempt |-> 0, calls |-> 0,
               log |-> <<>>, out |-> None]

\* return await apiCall(): the attempt resolves, with a value of its own.
ApiCallResolves ==
    /\ calc.op = "retry"
    /\ calc.at = "call"
    /\ calc.attempt < MAX_RETRIES
    /\ calc' = [calc EXCEPT !.at = "returned", !.calls = @ + 1,
                            !.out = [value |-> calc.attempt]]
    /\ UNCHANGED screenVars

\* The attempt rejects: the catch block.  lastError is the error of the last
\* entry of the log; each entry holds the delay waited after that attempt.
ApiCallRejects ==
    /\ calc.op = "retry"
    /\ calc.at = "call"
    /\ calc.attempt < MAX_RETRIES
    /\ \E kind \in ErrorKinds, jitter \in Jitters :
         \E e \in {ErrorOf(calc.attempt, kind)} :
           calc' =
             IF ~RethrowsAtOnce(e)
             THEN IF calc.attempt < MAX_RETRIES - 1
                  THEN [calc EXCEPT
                          !.at = "wait", !.calls = @ + 1,
                          !.log = Append(@, [error |-> e,
                                             delay |-> BackoffDelay(calc.attempt, jitter)])]
                  ELSE \* the loop ends; throw lastError
                       [calc EXCEPT
                          !.at = "thrown", !.calls = @ + 1, !.attempt = @ + 1,
                          !.log = Append(@, [error |-> e, delay |-> 0]),
                          !.out = e]
             ELSE \* throw e
                  [calc EXCEPT
                     !.at = "thrown", !.calls = @ + 1,
                     !.log = Append(@, [error |-> e, delay |-> 0]),
                     !.out = e]
    /\ UNCHANGED screenVars

\* The timer of the backoff fires: the loop goes to its next attempt.
TimerFires ==
    /\ calc.op = "retry"
    /\ calc.at = "wait"
    /\ calc' = [calc EXCEPT !.at = "call", !.attempt = @ + 1]
    /\ UNCHANGED screenVars

NextRetry ==
    \/ ApiCallResolves
    \/ ApiCallRejects
    \/ TimerFires

SpecRetry == InitRetry /\ [][NextRetry]_vars

\* ------------------------------------------------------------------ C23
\* C23: an attempt that fails with an error that is not a rate-limit error is
\* the last one: withRetry has thrown that very error, no delay was waited
\* after it and no further call was made, whichever attempt it was.
NonRateLimitRethrown ==
    calc.op = "retry" =>
      \A i \in 1..Len(calc.log) :
        ~isRateLimitError(calc.log[i].error)
        => /\ i = Len(calc.log)
           /\ calc.calls = i
           /\ calc.at = "thrown"
           /\ calc.out = calc.log[i].error
           /\ calc.out.id = i - 1
           /\ calc.log[i].delay = 0

\* The third attempt failed with an error that is not a rate-limit error,
\* after two rate-limit errors.
NonRateLimitWitness ==
    /\ calc.op = "retry"
    /\ Len(calc.log) = 3
    /\ ~isRateLimitError(calc.log[3].error)
    /\ calc.at = "thrown"

\* ------------------------------------------------------------------ C24
\* Every failed attempt that was followed by another attempt, or by a wait.
Retried == {i \in 1..Len(calc.log) : i < calc.calls \/ calc.at \in {"wait", "call"}}

\* C24: withRetry makes at most 5 calls and has returned or thrown once the
\* fifth has settled; a success returns the value of that attempt, the first
\* one that succeeded; every retried attempt failed with a rate-limit error
\* and was followed by a delay of at least 250 * 2^k ms (k its index from
\* 0); no delay follows the fifth; five rate-limit errors throw the fifth.
RetryBounded ==
    calc.op = "retry" =>
      /\ calc.calls <= MAX_RETRIES
      /\ calc.calls = MAX_RETRIES => calc.at \in {"returned", "thrown"}
      /\ calc.at = "returned"
         => /\ calc.calls = Len(calc.log) + 1
            /\ calc.out = [value |-> calc.calls - 1]
      /\ \A i \in Retried :
           /\ isRateLimitError(calc.log[i].error)
           /\ calc.log[i].delay >= INITIAL_DELAY_MS * (2 ^ (i - 1))
      /\ Len(calc.log) = MAX_RETRIES
         => /\ calc.log[MAX_RETRIES].delay = 0
            /\ calc.at = "thrown"
            /\ calc.out = calc.log[MAX_RETRIES].error
            /\ calc.out.id = MAX_RETRIES - 1

\* Five attempts failed with rate-limit errors and the fifth was thrown.
RetryExhaustedWitness ==
    /\ calc.op = "retry"
    /\ Len(calc.log) = MAX_RETRIES
    /\ \A i \in 1..MAX_RETRIES : isRateLimitError(calc.log[i].error)
    /\ calc.at = "thrown"

\* ------------------------------------------------------------------ C21
\* C21: the output audio context is created once, by the mount effect, and
\* every voice session reuses it: however many sessions are started and
\* stopped there is one output context, and it is closed only once the chat
\* screen is unmounted.
OneOutputContext ==
    /\ outputContexts = 1
    /\ ctxState = "closed" => ~mounted

\* Two voice sessions were opened, the stop button was pressed,
\* and the screen is still mounted with its context running.
OneOutputContextWitness ==
    /\ pc[1] = "done"
    /\ pc[2] = "done"
    /\ last.op = "stop"
    /\ mounted
    /\ ctxState = "running"
    /\ outputContexts = 1

\* ------------------------------------------------------------------ C22
\* C22: right after getUserMedia rejected for a startMic call, the microphone
\* error is shown, that call has no remote session, no live track and no
\* connected processor, the listening indicator is off, and the next click
\* on the microphone button is accepted by startMic.
MicDenialRecoverable ==
    (last.op = "micDenied" /\ mounted)
    => /\ sessionError = "mic"
       /\ rstat[last.r] = "none"
       /\ ~trackLive[last.r]
       /\ ~procConnected[last.r]
       /\ ~isListening
       /\ StartGuard(isListening)
       /\ ((\E q \in Runs : pc[q] = "idle") => ENABLED (\E q \in Runs : StartMic(q)))

\* The first startMic call was refused the microphone; the second one was
\* accepted and its session is open.
MicDenialWitness ==
    /\ pc[1] = "failed" /\ rstat[1] = "none"
    /\ pc[2] = "done" /\ rstat[2] = "open"
    /\ isListening
    /\ liveSession = 2
    /\ sessionError = "none"

\* ------------------------------------------------------------ the cart
Urls == 1..MaxUrls

\* The cart holds an item with this shoppingUrl.
InCart(c, url) == \E i \in DOMAIN c : c[i].shoppingUrl = url

\* A quantity is a JavaScript number: an integer, or NaN.
Num(n) == [nan |-> FALSE, n |-> n]
NaN == [nan |-> TRUE, n |-> 0]

\* quantity + 1: NaN + 1 is NaN.
PlusOne(q) == [q EXCEPT !.n = IF q.nan THEN 0 ELSE @ + 1]

\* An add that always appends a new item.
AddAlwaysAppends(c, url) == Append(c, [shoppingUrl |-> url, quantity |-> Num(1)])

\* handleAddToCart: the updater it hands to setCart, applied to the cart c.
handleAddToCart(c, url) ==
    IF InCart(c, url)
    THEN [i \in DOMAIN c |->
            IF c[i].shoppingUrl = url
            THEN [c[i] EXCEPT !.quantity = PlusOne(@)]
            ELSE c[i]]
    ELSE Append(c, [shoppingUrl |-> url, quantity |-> Num(1)])

\* A filter that keeps a quantity of 0.
NotNegative(q) == ~q.nan /\ q.n >= 0

\* item.quantity > 0: every comparison with NaN is false.
GreaterThanZero(q) == ~q.nan /\ q.n > 0

\* handleUpdateCartQuantity: the updater it hands to setCart.
handleUpdateCartQuantity(c, url, quantity) ==
    SelectSeq([i \in DOMAIN c |->
                 IF c[i].shoppingUrl = url THEN [c[i] EXCEPT !.quantity = quantity]
                 ELSE c[i]],
              LAMBDA item : GreaterThanZero(item.quantity))

\* handleRemoveFromCart: the updater it hands to setCart.
handleRemoveFromCart(c, url) == SelectSeq(c, LAMBDA item : item.shoppingUrl # url)

\* ------------------------------------------------------ AnalyzeScreen
\* recKey = `${rec.name}-${rec.brand}`: a recommendation is modelled by the
\* name-brand pair it carries, so recKey reads it off.
Keys == 1..MaxKeys
recKey(rec) == rec

\* The recommendation lists of an analysis result.
RecLists == UNION {[1..n -> Keys] : n \in 0..MaxRecs}

\* What searchProducts does for one recommendation: it rejects, or it
\* resolves with a list of options (possibly empty), each named by its
\* shoppingUrl.
OptionLists == UNION {[1..n -> Urls] : n \in 0..MaxOptions}
SearchOutcomes ==
    [ok : {FALSE}, options : {<<>>}] \cup [ok : {TRUE}, options : OptionLists]

Loading == [state |-> "loading", options |-> <<>>]

\* allFetchedOptions[recKey] = options, or 'error' in the catch.
Fetched(out) ==
    IF out.ok THEN [state |-> "options", options |-> out.options]
    ELSE [state |-> "error", options |-> <<>>]

\* table[key] = value
Put(table, key, value) ==
    [k \in DOMAIN table \cup {key} |-> IF k = key THEN value ELSE table[k]]

\* {...prev, ...next}
Merge(prev, next) ==
    [k \in DOMAIN prev \cup DOMAIN next |-> IF k \in DOMAIN next THEN next[k] ELSE prev[k]]

\* initialLoadingState: every recKey of the result is 'loading'.
LoadingTable(recs) == [k \in {recKey(recs[i]) : i \in DOMAIN recs} |-> Loading]

\* Array.isArray(options) && options.length > 0
HasOption(entry) == entry.state = "options" /\ entry.options # <<>>

\* The auto-add loop: for each recommendation in order, the first option
\* found under its recKey is handed to onAddToCart.
RECURSIVE AutoAdd(_, _, _)
AutoAdd(c, recs, fetched) ==
    IF recs = <<>> THEN c
    ELSE AutoAdd(IF HasOption(fetched[recKey(Head(recs))])
                 THEN handleAddToCart(c, Head(fetched[recKey(Head(recs))].options))
                 ELSE c,
                 Tail(recs), fetched)

\* The uploader is shown: no loader, no error, no result.  Selecting an image
\* (handleImageSelect calls handleStartNew) and submitting the questionnaire
\* calls handleAnalysis, which runs up to its await of analyzeSkinImage.
StartAnalysis(a) ==
    /\ analysis[a].at = "idle"
    /\ \A b \in 1..MaxAnalyses : b < a => analysis[b].at # "idle"
    /\ ~isLoading
    /\ ~error
    /\ currentAnalysisResult = None
    /\ isLoading' = TRUE
    /\ shoppingProductOptions' = EmptyTable
    /\ analysis' = [analysis EXCEPT ![a].at = "analyzing"]
    /\ UNCHANGED <<error, currentAnalysisResult, cart, selectedRecords, imagesToCompare,
                   isStreaming, submit, calc>>
    /\ UNCHANGED voiceVars

\* analyzeSkinImage rejects: the catch block of handleAnalysis.
AnalysisFails(a) ==
    /\ analysis[a].at = "analyzing"
    /\ error' = TRUE
    /\ isLoading' = FALSE
    /\ analysis' = [analysis EXCEPT ![a].at = "failed"]
    /\ UNCHANGED <<shoppingProductOptions, currentAnalysisResult, cart, selectedRecords,
                   imagesToCompare, isStreaming, submit, calc>>
    /\ UNCHANGED voiceVars

\* Promise.all has resolved: the fetched options are merged into the table
\* and the auto-add loop runs.
SearchesDone(a, recs, fetched) ==
    /\ shoppingProductOptions' = Merge(shoppingProductOptions, fetched)
    /\ cart' = AutoAdd(cart, recs, fetched)

\* analyzeSkinImage resolves with the recommendations recs: the result is
\* shown, every recKey is set to 'loading' and one search per recommendation
\* is started.  Without recommendations Promise.all resolves at once.
AnalysisSucceeds(a, recs) ==
    /\ analysis[a].at = "analyzing"
    /\ currentAnalysisResult' = a
    /\ isLoading' = FALSE
    /\ IF recs = <<>>
       THEN /\ analysis' = [analysis EXCEPT ![a].at = "done"]
            /\ shoppingProductOptions' = EmptyTable
            /\ cart' = cart
       ELSE /\ analysis' = [analysis EXCEPT ![a].at = "searching", ![a].recs = recs,
                                              ![a].pending = DOMAIN recs]
            /\ shoppingProductOptions' = LoadingTable(recs)
            /\ cart' = cart
    /\ UNCHANGED <<error, selectedRecords, imagesToCompare, isStreaming, submit, calc>>
    /\ UNCHANGED voiceVars

\* The search of recommendation i of call a settles with out.  returned
\* keeps, per recommendation, what its own search gave.  When it is the last
\* one pending, the rest of handleAnalysis runs in the same task.
SearchSettles(a, i, out) ==
    /\ analysis[a].at = "searching"
    /\ i \in analysis[a].pending
    /\ \E fetched \in {Put(analysis[a].fetched, recKey(analysis[a].recs[i]), Fetched(out))} :
         /\ analysis' = [analysis EXCEPT
                           ![a].fetched = fetched,
                           ![a].returned = Put(@, i, out),
                           ![a].pending = @ \ {i},
                           ![a].at = IF analysis[a].pending = {i} THEN "done" ELSE @]
         /\ IF analysis[a].pending = {i}
            THEN SearchesDone(a, analysis[a].recs, fetched)
            ELSE UNCHANGED <<shoppingProductOptions, cart>>
    /\ UNCHANGED <<currentAnalysisResult, isLoading, error, selectedRecords, imagesToCompare,
                   isStreaming, submit, calc>>
    /\ UNCHANGED voiceVars

\* Start New Analysis (shown with the result) or Try Again (shown with the
\* error): handleStartNew.
HandleStartNew ==
    /\ ~isLoading
    /\ error \/ currentAnalysisResult # None
    /\ currentAnalysisResult' = None
    /\ error' = FALSE
    /\ shoppingProductOptions' = EmptyTable
    /\ UNCHANGED <<isLoading, analysis, cart, selectedRecords, imagesToCompare,
                   isStreaming, submit, calc>>
    /\ UNCHANGED voiceVars

NextAnalyze ==
    \/ \E a \in 1..MaxAnalyses : StartAnalysis(a)
    \/ \E a \in 1..MaxAnalyses : AnalysisFails(a)
    \/ \E a \in 1..MaxAnalyses, recs \in RecLists : AnalysisSucceeds(a, recs)
    \/ \E a \in 1..MaxAnalyses, i \in 1..MaxRecs, out \in SearchOutcomes : SearchSettles(a, i, out)
    \/ HandleStartNew

SpecAnalyze == Init /\ [][NextAnalyze]_vars

\* ------------------------------------------------------------------ C25
\* What the searches of the recommendations i.. of a call gave, added in
\* order: the first option of each search that returned a non-empty list.
RECURSIVE AddFirstOptions(_, _, _)
AddFirstOptions(c, returned, i) ==
    IF i \notin DOMAIN returned THEN c
    ELSE AddFirstOptions(IF returned[i].ok /\ returned[i].options # <<>>
                         THEN handleAddToCart(c, Head(returned[i].options))
                         ELSE c,
                         returned, i + 1)

\* C25: when the last product search of a successful analysis settles, the
\* cart receives one unit of the first option of every recommendation whose
\* own search returned a non-empty list, and nothing for a recommendation
\* whose search failed or returned no option.
AutoAddFirstOptions ==
    [][\A a \in 1..MaxAnalyses :
         (analysis[a].at = "searching" /\ analysis'[a].at = "done")
         => cart' = AddFirstOptions(cart, analysis'[a].returned, 1)]_vars

\* ------------------------------------------------------------------ C28
\* C28: while no analysis result is shown (the screen was reset, or no
\* analysis has succeeded since), the product-option table is empty and no
\* step adds a product to the cart.
ResetStaysClear ==
    [][/\ currentAnalysisResult' = None => shoppingProductOptions' = EmptyTable
       /\ (currentAnalysisResult = None /\ currentAnalysisResult' = None) => cart' = cart]_vars

\* ------------------------------------------------------ JourneyTracker
\* The analysis records of the history shown by the tracker.
Records == 1..MaxRecords

\* prev.includes(record)
Includes(prev, record) == \E i \in DOMAIN prev : prev[i] = record

\* prev.filter(r => r !== record)
Without(prev, record) == SelectSeq(prev, LAMBDA r : r # record)

\* A toggle without the limit of two selections.
ToggleWithoutLimit(prev, record) ==
    IF Includes(prev, record) THEN Without(prev, record) ELSE Append(prev, record)

\* handleToggleSelect: the updater it hands to setSelectedRecords.
handleToggleSelect(prev, record) ==
    IF Includes(prev, record) THEN Without(prev, record)
    ELSE IF Len(prev) < 2 THEN Append(prev, record)
    ELSE prev

\* A click on the checkbox of a record.
ToggleSelect(record) ==
    /\ selectedRecords' = handleToggleSelect(selectedRecords, record)
    /\ UNCHANGED <<imagesToCompare, cart, shoppingProductOptions, currentAnalysisResult,
                   isLoading, error, analysis, isStreaming, submit, calc>>
    /\ UNCHANGED voiceVars

\* handleCompareClick; onCompareImages stores the records for the modal.
CompareClick ==
    /\ IF Len(selectedRecords) = 2
       THEN /\ imagesToCompare' = selectedRecords
            /\ selectedRecords' = <<>>
       ELSE UNCHANGED <<imagesToCompare, selectedRecords>>
    /\ UNCHANGED <<cart, shoppingProductOptions, currentAnalysisResult, isLoading, error,
                   analysis, isStreaming, submit, calc>>
    /\ UNCHANGED voiceVars

NextTracker ==
    \/ \E record \in Records : ToggleSelect(record)
    \/ CompareClick

SpecTracker == Init /\ [][NextTracker]_vars

\* ------------------------------------------------------------------ C26
\* C26: the selection never holds more than 2 records; a toggle of a
\* selected record removes it and keeps the others, a toggle of a third
\* record while 2 are selected changes nothing; the comparison receives
\* records only by a compare click made with exactly 2 records selected, it
\* receives those 2, and the selection is empty afterwards.
SelectionAtMostTwo ==
    [][/\ Len(selectedRecords') <= 2
       /\ \A record \in Records :
            ToggleSelect(record)
            => /\ Includes(selectedRecords, record)
                  => /\ ~Includes(selectedRecords', record)
                     /\ Len(selectedRecords') = Len(selectedRecords) - 1
                     /\ \A other \in Records \ {record} :
                          Includes(selectedRecords', other) <=> Includes(selectedRecords, other)
               /\ (~Includes(selectedRecords, record) /\ Len(selectedRecords) = 2)
                  => selectedRecords' = selectedRecords
       /\ imagesToCompare' # imagesToCompare
          => /\ CompareClick
             /\ Len(selectedRecords) = 2
             /\ imagesToCompare' = selectedRecords
             /\ selectedRecords' = <<>>
       /\ (CompareClick /\ Len(selectedRecords) # 2)
          => UNCHANGED <<imagesToCompare, selectedRecords>>]_vars

\* Two records are selected after a first pair was compared; a click on a
\* third record would leave the selection as it is.
SelectionWitness ==
    /\ Len(selectedRecords) = 2
    /\ imagesToCompare # <<>>
    /\ imagesToCompare # selectedRecords
    /\ \E record \in Records :
         /\ ~Includes(selectedRecords, record)
         /\ handleToggleSelect(selectedRecords, record) = selectedRecords

\* ------------------------------------------------------ handleChatSubmit
\* The text the user typed, as one piece of text.
TypedText == <<0>>

\* if (!chatInput.trim() && !attachedImage || isStreaming || isListening) return;
\* for a non-empty input.
SubmitGuard(streaming, listening) == ~streaming /\ ~listening

\* The variables of the voice pipeline that the text chat leaves alone.
voiceButHistory ==
    <<mounted, isListening, liveSession, micStream, audioInputProcessor,
      currentInputTranscription, currentOutputTranscription, sessionError,
      audioSourcesRef, nextStartTimeRef, ctxState, now, pc, cap, trackLive,
      procConnected, rstat, sent, ticks, dropped, msgCount, startLog, stopped,
      flushed, tornDown, last, microtasks, outputContexts>>

analyzeVars == <<cart, shoppingProductOptions, currentAnalysisResult, isLoading, error,
                 analysis, selectedRecords, imagesToCompare>>

\* The form is submitted with a non-empty input on the chat tab: the user
\* message is appended and handleChatSubmit runs up to its await of
\* sendChatMessageStream.
ChatSubmit ==
    /\ Dispatchable(microtasks)
    /\ mounted
    /\ submit.at = "idle"
    /\ Len(chatHistory) < MaxHistory
    /\ SubmitGuard(isStreaming, isListening)
    /\ chatHistory' = Append(chatHistory, [role |-> USER, text |-> TypedText])
    /\ isStreaming' = TRUE
    /\ submit' = [at |-> "awaiting", reply |-> None]
    /\ UNCHANGED <<voiceButHistory, analyzeVars, calc>>

\* sendChatMessageStream resolves: an empty model message is appended; reply
\* keeps the index at which this call appended it.
ReplyStarts ==
    /\ Dispatchable(microtasks)
    /\ submit.at = "awaiting"
    /\ chatHistory' = SetState(Append(chatHistory, [role |-> MODEL, text |-> <<>>]),
                               chatHistory)
    /\ submit' = [at |-> "streaming", reply |-> Len(chatHistory) + 1]
    /\ UNCHANGED <<isStreaming, voiceButHistory, analyzeVars, calc>>

\* latestHistory[latestHistory.length - 1].text = responseText
SetLastText(history, responseText) ==
    IF history = <<>> THEN history
    ELSE [history EXCEPT ![Len(history)].text = responseText]

\* A chunk of the reply arrives: responseText grows by it and the text of the
\* last message of the history is replaced by responseText.
StreamChunk ==
    /\ Dispatchable(microtasks)
    /\ submit.at = "streaming"
    /\ chatHistory' = SetState(SetLastText(chatHistory, <<1>>), chatHistory)
    /\ submit' = [submit EXCEPT !.at = "streamed"]
    /\ UNCHANGED <<isStreaming, voiceButHistory, analyzeVars, calc>>

\* The stream ends, or the request fails before any chunk: finally.
ChatDone ==
    /\ Dispatchable(microtasks)
    /\ submit.at \in {"awaiting", "streaming", "streamed"}
    /\ chatHistory' =
          IF submit.at = "awaiting"
          THEN SetState(Append(chatHistory, [role |-> MODEL, text |-> <<-1>>]), chatHistory)
          ELSE chatHistory
    /\ isStreaming' = SetState(FALSE, isStreaming)
    /\ submit' = NoSubmit
    /\ UNCHANGED <<voiceButHistory, analyzeVars, calc>>

\* The chat screen with text requests and one voice session.
NextChat ==
    \/ \E r \in 1..PlayRuns : Lifecycle(r)
    \/ \E r \in Runs, m \in TranscriptMessages : OnMessage(r, m)
    \/ UserStop
    \/ ChatSubmit
    \/ ReplyStarts
    \/ StreamChunk
    \/ ChatDone

SpecChat == Init /\ [][NextChat]_vars

\* ------------------------------------------------------------------ C27
\* A voice session is connecting or open.
VoiceInProgress == \E r \in Runs : rstat[r] \in {"connecting", "open"}

\* C27: a text reply is never awaited or streamed while a voice session is
\* connecting or open, and the last message of the history, which a streamed
\* chunk rewrites, is the model message that the text request appended.
TextAndVoiceExclusive ==
    /\ ~(isStreaming /\ VoiceInProgress)
    /\ (mounted /\ submit.at \in {"streaming", "streamed"})
       => /\ submit.reply = Len(chatHistory)
          /\ chatHistory[submit.reply].role = MODEL

\* ----------------------------------------------------- the cart handlers
\* The shopping URLs of the products offered to the cart.
CartUrls == 1..MaxItems

\* parseInt(e.target.value, 10) of the quantity input: an integer, or NaN
\* for an empty field.
ParsedQuantities == {NaN} \cup {Num(n) : n \in -1..MaxQuantity}

\* The variables the cart handlers leave alone.
allButCart ==
    <<voiceVars, isStreaming, submit, shoppingProductOptions, currentAnalysisResult,
      isLoading, error, analysis, selectedRecords, imagesToCompare>>

\* The cart handler that ran last, with its arguments.
CartCall(op, url, quantity) == [op |-> op, url |-> url, quantity |-> quantity]

\* A product is added to the cart (Add to Cart, or the auto-add).
AddToCart(url) ==
    /\ \A i \in DOMAIN cart : cart[i].shoppingUrl = url => cart[i].quantity.n < MaxQuantity
    /\ cart' = handleAddToCart(cart, url)
    /\ calc' = CartCall("add", url, NaN)
    /\ UNCHANGED allButCart

\* The quantity input of an item of the cart changes.
UpdateCartQuantity(url, quantity) ==
    /\ InCart(cart, url)
    /\ cart' = handleUpdateCartQuantity(cart, url, quantity)
    /\ calc' = CartCall("update", url, quantity)
    /\ UNCHANGED allButCart

\* The trash button of an item of the cart.
RemoveFromCart(url) ==
    /\ InCart(cart, url)
    /\ cart' = handleRemoveFromCart(cart, url)
    /\ calc' = CartCall("remove", url, NaN)
    /\ UNCHANGED allButCart

\* Clear All: handleClearCart.
ClearCart ==
    /\ cart # <<>>
    /\ cart' = <<>>
    /\ calc' = CartCall("clear", None, NaN)
    /\ UNCHANGED allButCart

NextCart ==
    \/ \E url \in CartUrls : AddToCart(url)
    \/ \E url \in CartUrls, quantity \in ParsedQuantities : UpdateCartQuantity(url, quantity)
    \/ \E url \in CartUrls : RemoveFromCart(url)
    \/ ClearCart

SpecCart == Init /\ [][NextCart]_vars

\* ------------------------------------------------------------------ C29
\* The position of the item with this shoppingUrl, when there is exactly one.
ItemAt(c, url) == CHOOSE i \in DOMAIN c : c[i].shoppingUrl = url

\* C29: no two items of the cart have the same shoppingUrl; an add of a
\* product that is in the cart raises the quantity of its item by exactly 1
\* and leaves the number of items and every other item as they were; an add
\* of a product that is not in the cart appends it with quantity 1.
CartUrlsDistinct ==
    [][/\ \A i, j \in DOMAIN cart' : cart'[i].shoppingUrl = cart'[j].shoppingUrl => i = j
       /\ calc'.op = "add"
          => IF InCart(cart, calc'.url)
             THEN /\ Len(cart') = Len(cart)
                  /\ \A i \in DOMAIN cart :
                       IF i = ItemAt(cart, calc'.url)
                       THEN /\ cart'[i].shoppingUrl = calc'.url
                            /\ cart'[i].quantity = Num(cart[i].quantity.n + 1)
                       ELSE cart'[i] = cart[i]
             ELSE /\ Len(cart') = Len(cart) + 1
                  /\ SubSeq(cart', 1, Len(cart)) = cart
                  /\ cart'[Len(cart')] = [shoppingUrl |-> calc'.url, quantity |-> Num(1)]]_vars

\* A product that was in a cart of two items was added again.
CartAddWitness ==
    /\ calc.op = "add"
    /\ Len(cart) = 2
    /\ cart[1].shoppingUrl = calc.url
    /\ cart[1].quantity = Num(2)

\* ------------------------------------------------------------------ C30
\* C30: every item of the cart has a quantity of at least 1; an update of an
\* item to 0, to a negative number or to NaN removes that item and keeps the
\* others in order; an update to a positive number sets the quantity of that
\* item and changes nothing else.
QuantityAtLeastOne ==
    [][/\ \A i \in DOMAIN cart' : ~cart'[i].quantity.nan /\ cart'[i].quantity.n >= 1
       /\ calc'.op = "update"
          => IF ~calc'.quantity.nan /\ calc'.quantity.n >= 1
             THEN /\ Len(cart') = Len(cart)
                  /\ \A i \in DOMAIN cart :
                       IF cart[i].shoppingUrl = calc'.url
                       THEN cart'[i] = [shoppingUrl |-> calc'.url, quantity |-> calc'.quantity]
                       ELSE cart'[i] = cart[i]
             ELSE /\ ~InCart(cart', calc'.url)
                  /\ Len(cart') = Len(cart) - 1
                  /\ cart' = SelectSeq(cart, LAMBDA item : item.shoppingUrl # calc'.url)]_vars

\* The quantity field of one of two items was emptied: that item is gone and
\* the other one is left.
QuantityUpdateWitness ==
    /\ calc.op = "update"
    /\ calc.quantity.nan
    /\ Len(cart) = 1
    /\ ~InCart(cart, calc.url)
====
